---- MODULE Spec2Model ----
(***************************************************************************)
(* Model of lib/prompt.js (asterisk/node-voicemail-prompt): the machina    *)
(* state machine that plays a list of sounds on a channel, and the         *)
(* play()/stop() facade that turns its outcome events into a promise.      *)
(*                                                                         *)
(* Strings are sequences of one-character strings, so that the regular     *)
(* expression and String.prototype.replace of processing.play are computed *)
(* character by character.                                                 *)
(***************************************************************************)
EXTENDS Integers, Sequences, FiniteSets, TLC

\* ------------------------------------------------------------------ bounds
MaxLen == 2          \* longest sound list
MaxPlayCalls == 2    \* calls of api.play() in one run
MaxStopCalls == 2    \* calls of api.stop() in one run
MaxStrLen == 4       \* longest sound identifier of the playlist-builder runs

\* --------------------------------------------------------------- strings
Undefined == <<"u", "n", "d", "e", "f", "i", "n", "e", "d">>

Max(S) == CHOOSE x \in S : \A y \in S : y <= x
Min(S) == CHOOSE x \in S : \A y \in S : x <= y

\* characters a string of this module cannot hold, named by their code point:
\* the grave accent, LINE SEPARATOR and PARAGRAPH SEPARATOR
GraveAccent == "U+0060"
LineSeparator == "U+2028"
ParagraphSeparator == "U+2029"

\* the characters "." of a JavaScript regular expression does not match
IsLineTerminator(c) == c \in {"\n", "\r", LineSeparator, ParagraphSeparator}

\* last index k >= i such that s[i+1..k] holds no line terminator
DotRunEnd(s, i) ==
  Max({k \in i..Len(s) : \A m \in (i + 1)..k : ~IsLineTerminator(s[m])})

\* /\{(.+)\}/ tried at index i: index of the closing brace of the greedy
\* match, 0 when the expression does not match there
MatchEndAt(s, i) ==
  IF s[i] # "{" THEN 0
  ELSE LET ends == {j \in (i + 2)..DotRunEnd(s, i) : s[j] = "}"}
       IN IF ends = {} THEN 0 ELSE Max(ends)

\* regex.exec(sound.sound): <<i, j>>, the leftmost match s[i..j], or <<0, 0>>
\* for null
RegexExec(s) ==
  LET starts == {i \in 1..Len(s) : MatchEndAt(s, i) # 0}
  IN IF starts = {} THEN <<0, 0>>
     ELSE <<Min(starts), MatchEndAt(s, Min(starts))>>

\* String.prototype.indexOf: first index where pat occurs in s, 0 if none
IndexOf(s, pat) ==
  LET occ == {p \in 1..(Len(s) - Len(pat) + 1) :
                SubSeq(s, p, p + Len(pat) - 1) = pat}
  IN IF occ = {} THEN 0 ELSE Min(occ)

\* GetSubstitution of String.prototype.replace for a string pattern: the
\* replacement text with its $-patterns expanded, read from index k on
RECURSIVE GetSubstitution(_, _, _, _, _)
GetSubstitution(r, k, matched, before, after) ==
  IF k > Len(r) THEN <<>>
  ELSE IF r[k] = "$" /\ k < Len(r) /\ r[k + 1] = "$"
    THEN <<"$">> \o GetSubstitution(r, k + 2, matched, before, after)
  ELSE IF r[k] = "$" /\ k < Len(r) /\ r[k + 1] = "&"
    THEN matched \o GetSubstitution(r, k + 2, matched, before, after)
  ELSE IF r[k] = "$" /\ k < Len(r) /\ r[k + 1] = GraveAccent
    THEN before \o GetSubstitution(r, k + 2, matched, before, after)
  ELSE IF r[k] = "$" /\ k < Len(r) /\ r[k + 1] = "'"
    THEN after \o GetSubstitution(r, k + 2, matched, before, after)
  ELSE <<r[k]>> \o GetSubstitution(r, k + 1, matched, before, after)

\* values that are not strings, written as sequences no string equals: the
\* exception a step of the build throws, the replacements argument when
\* create() was called without one, and a member of Object.prototype
TypeError == <<"TypeError">>
NoReplacements == [k \in {<<>>} |-> <<"undefined">>]
Inherited(member) == <<"Object.prototype", member>>

\* the members of Object.prototype, each with its name as a string
ObjectPrototype ==
  {<<"constructor",
     <<"c", "o", "n", "s", "t", "r", "u", "c", "t", "o", "r">>>>,
   <<"toString",
     <<"t", "o", "S", "t", "r", "i", "n", "g">>>>,
   <<"toLocaleString",
     <<"t", "o", "L", "o", "c", "a", "l", "e", "S", "t", "r", "i", "n", "g">>>>,
   <<"valueOf",
     <<"v", "a", "l", "u", "e", "O", "f">>>>,
   <<"hasOwnProperty",
     <<"h", "a", "s", "O", "w", "n", "P", "r", "o", "p", "e", "r", "t", "y">>>>,
   <<"isPrototypeOf",
     <<"i", "s", "P", "r", "o", "t", "o", "t", "y", "p", "e", "O", "f">>>>,
   <<"propertyIsEnumerable",
     <<"p", "r", "o", "p", "e", "r", "t", "y", "I", "s", "E", "n", "u", "m", "e", "r", "a", "b", "l", "e">>>>,
   <<"__defineGetter__",
     <<"_", "_", "d", "e", "f", "i", "n", "e", "G", "e", "t", "t", "e", "r", "_", "_">>>>,
   <<"__defineSetter__",
     <<"_", "_", "d", "e", "f", "i", "n", "e", "S", "e", "t", "t", "e", "r", "_", "_">>>>,
   <<"__lookupGetter__",
     <<"_", "_", "l", "o", "o", "k", "u", "p", "G", "e", "t", "t", "e", "r", "_", "_">>>>,
   <<"__lookupSetter__",
     <<"_", "_", "l", "o", "o", "k", "u", "p", "S", "e", "t", "t", "e", "r", "_", "_">>>>,
   <<"__proto__",
     <<"_", "_", "p", "r", "o", "t", "o", "_", "_">>>>}

\* ToString of what the member returns when replace calls it as
\* member(matched, position, string) with this undefined; TypeError when the
\* member throws (it converts this to an object first)
CallMember(member, matched) ==
  IF member = "constructor" THEN matched
  ELSE IF member = "toString"
    THEN <<"[", "o", "b", "j", "e", "c", "t", " ",
           "U", "n", "d", "e", "f", "i", "n", "e", "d", "]">>
  ELSE IF member = "isPrototypeOf" THEN <<"f", "a", "l", "s", "e">>
  ELSE TypeError

\* sound.sound.replace(original, value): the first occurrence of the string
\* original replaced by the expansion of value when value is a string, by
\* the result of the call when it is a function (every member of
\* Object.prototype but __proto__, which is the prototype object itself and
\* is converted to the text "[object Object]")
Replace(s, original, value) ==
  LET p == IndexOf(s, original)
      before == SubSeq(s, 1, p - 1)
      after == SubSeq(s, p + Len(original), Len(s))
      inherited == Len(value) = 2 /\ value[1] = "Object.prototype"
      inserted ==
        IF ~inherited THEN GetSubstitution(value, 1, original, before, after)
        ELSE IF value[2] = "__proto__"
          THEN <<"[", "o", "b", "j", "e", "c", "t", " ",
                 "O", "b", "j", "e", "c", "t", "]">>
        ELSE CallMember(value[2], original)
  IN IF value = TypeError \/ inserted = TypeError THEN TypeError
     ELSE IF p = 0 THEN s
     ELSE before \o inserted \o after

\* replacements[replacement]: the own value of the name; else the member of
\* Object.prototype of that name; else undefined, which replace turns into
\* the text "undefined". Without a replacements argument the property read
\* throws.
Lookup(repl, name) ==
  IF repl = NoReplacements THEN TypeError
  ELSE IF name \in DOMAIN repl THEN repl[name]
  ELSE IF \E m \in ObjectPrototype : m[2] = name
    THEN Inherited((CHOOSE m \in ObjectPrototype : m[2] = name)[1])
  ELSE Undefined

\* the media string of one playlist entry (lines 126-134)
Resolve(s, repl) ==
  LET result == RegexExec(s)
      original == SubSeq(s, result[1], result[2])
      replacement == SubSeq(s, result[1] + 1, result[2] - 1)
  IN IF result = <<0, 0>> THEN s
     ELSE Replace(s, original, Lookup(repl, replacement))

\* the build of the playlist throws: some entry's replace or property read
\* does
BuildThrows(snds, repl) ==
  \E i \in 1..Len(snds) : Resolve(snds[i].sound, repl) = TypeError

\* sounds.map(...): a clone of every descriptor with its media resolved
BuildPlaylist(snds, repl) ==
  [i \in 1..Len(snds) |->
     [sound |-> Resolve(snds[i].sound, repl),
      skipable |-> snds[i].skipable,
      postSilence |-> snds[i].postSilence]]


\* ------------------------------------------------------------------ inputs
\* sound identifiers and replacement values of the state-machine runs
Plain == <<"a">>
WithPlaceholder == <<"{", "n", "}">>

\* the sound descriptors of the state-machine runs: each identifier, and each
\* combination of skipable and postSilence, occurs in one of them
Catalog ==
  {[sound |-> Plain, skipable |-> FALSE, postSilence |-> 1],
   [sound |-> Plain, skipable |-> TRUE, postSilence |-> 0],
   [sound |-> WithPlaceholder, skipable |-> FALSE, postSilence |-> 0],
   [sound |-> WithPlaceholder, skipable |-> TRUE, postSilence |-> 1]}

SoundLists == UNION {[1..n -> Catalog] : n \in 0..MaxLen}

Mappings == {[k \in {<<"n">>} |-> <<"1">>]}

\* ------------------------------------------------------------------- state
VARIABLES
  sounds,                  \* the caller's sound list (create's argument)
  replacements,            \* the caller's replacement mapping
  state,                   \* machina: current state of the fsm
  eventQueue,              \* machina: commands deferred until a transition
  client,                  \* this.client is set
  playlist,                \* this.playlist
  sound,                   \* this.sound: <<>> is undefined, else <<entry>>
  stopped,                 \* this.stopped
  playback,                \* this.playback: 0 is undefined, else a handle
  currentPlaybackHandler,  \* this.currentPlaybackHandler is not null
  currentHangupHandler,    \* this.currentHangupHandler is not null
  stasisEndListener,       \* the channel holds the fsm's StasisEnd listener
  playbacks,               \* the playback handles made by client.Playback()
  timers,                  \* pending setTimeout calls of playing.finished
  ticks,                   \* pending process.nextTick callbacks
  deferreds,               \* one per api.play(): listeners and promise
  emitted,                 \* outcome events the fsm has emitted so far
  getClient,               \* the promises of ari.getClient().then().catch():
                           \* "pending", "resolved" (then has run),
                           \* "thrown" (then has thrown, catch not yet run),
                           \* "caught" (catch has run on that exception),
                           \* "rejected" (getClient failed, catch has run)
  hungup,                  \* the channel has emitted StasisEnd
  stopCalls,               \* number of api.stop() calls so far
  cancels,                 \* playback.stop() requests sent so far
  stops,                   \* the runs of playing.stop so far, each with the
                           \* progress of the playlist at that moment
  crashed                  \* an exception escaped a nextTick callback

vars ==
  <<sounds, replacements, state, eventQueue, client, playlist, sound, stopped,
    playback, currentPlaybackHandler, currentHangupHandler, stasisEndListener,
    playbacks, timers, ticks, deferreds, emitted, getClient, hungup,
    stopCalls, cancels, stops, crashed>>

\* the part of the state the handlers read and write, as one record
World ==
  [sounds |-> sounds, state |-> state, eventQueue |-> eventQueue, client |-> client,
   playlist |-> playlist, sound |-> sound, stopped |-> stopped,
   playback |-> playback, currentPlaybackHandler |-> currentPlaybackHandler,
   currentHangupHandler |-> currentHangupHandler,
   stasisEndListener |-> stasisEndListener, playbacks |-> playbacks,
   timers |-> timers, deferreds |-> deferreds, emitted |-> emitted,
   cancels |-> cancels, stops |-> stops, crashed |-> crashed]

Commit(w) ==
  /\ sounds' = w.sounds
  /\ state' = w.state
  /\ eventQueue' = w.eventQueue
  /\ client' = w.client
  /\ playlist' = w.playlist
  /\ sound' = w.sound
  /\ stopped' = w.stopped
  /\ playback' = w.playback
  /\ currentPlaybackHandler' = w.currentPlaybackHandler
  /\ currentHangupHandler' = w.currentHangupHandler
  /\ stasisEndListener' = w.stasisEndListener
  /\ playbacks' = w.playbacks
  /\ timers' = w.timers
  /\ deferreds' = w.deferreds
  /\ emitted' = w.emitted
  /\ cancels' = w.cancels
  /\ stops' = w.stops
  /\ crashed' = w.crashed

\* ------------------------------------------------------------ the facade
\* what onFinished, onStopped and onError settle the promise with
Settlement(sig) ==
  IF sig = "PromptFinished" THEN "true"
  ELSE IF sig = "PromptStopped" THEN "false"
  ELSE sig

\* mutant: the listener settles the deferred without removeListeners()
OnOutcome_keepListeners(d, sig) ==
  [listening |-> TRUE,
   promise |-> IF d.promise = "pending" THEN Settlement(sig) ELSE d.promise,
   settled |-> d.settled + 1]

\* one listener triple of api.play receiving an outcome event: it detaches
\* the three listeners (removeListeners) and settles the deferred
OnOutcome(d, sig) ==
  [listening |-> FALSE,
   promise |-> IF d.promise = "pending" THEN Settlement(sig) ELSE d.promise,
   settled |-> d.settled + 1]

\* this.emit(sig): every attached listener of that event runs
Emit(w, sig) ==
  [w EXCEPT !.emitted = Append(@, sig),
            !.deferreds = [i \in DOMAIN @ |->
                             IF @[i].listening THEN OnOutcome(@[i], sig)
                             ELSE @[i]]]

\* -------------------------------------------------------------- the fsm
RECURSIVE Handle(_, _)
RECURSIVE Transition(_, _)

removeHangupHandler(w) ==
  IF w.currentHangupHandler
  THEN [w EXCEPT !.stasisEndListener = FALSE, !.currentHangupHandler = FALSE]
  ELSE w

removePlaybackFinishedHandler(w) ==
  IF w.playback # 0 /\ w.currentPlaybackHandler
  THEN [w EXCEPT !.playbacks[w.playback].listener = FALSE,
                 !.currentPlaybackHandler = FALSE]
  ELSE w

\* mutant: the cleanup of done also clears the stopped flag
done_onEnter_clearsStopped(w) ==
  [removePlaybackFinishedHandler(removeHangupHandler(w))
     EXCEPT !.stopped = FALSE]

done_onEnter(w) == removePlaybackFinishedHandler(removeHangupHandler(w))

hangupHandler(w) == Transition(Emit(w, "Channel hungup."), "done")

playbackFinishedHandler(w) == Handle(w, "finished")

\* deferUntilTransition(stateName) for the command being handled
deferUntilTransition(w, cmd, stateName) ==
  [w EXCEPT !.eventQueue = Append(@, [cmd |-> cmd, untilState |-> stateName])]

init_play(w) == deferUntilTransition(w, "play", "processing")

init_stop(w) == deferUntilTransition(w, "stop", "playing")

\* mutant: the descriptors are resolved in place instead of being cloned
processing_play_inPlace(w) ==
  IF BuildThrows(w.sounds, replacements) THEN [w EXCEPT !.crashed = TRUE]
  ELSE Handle(Transition([w EXCEPT !.playlist =
                                     BuildPlaylist(w.sounds, replacements),
                                   !.sounds =
                                     BuildPlaylist(w.sounds, replacements)],
                         "playing"),
              "next")

\* an exception of the build leaves the handler before this.playlist is
\* assigned; crashed stands for the exception on its way up the call stack
processing_play(w) ==
  IF BuildThrows(w.sounds, replacements) THEN [w EXCEPT !.crashed = TRUE]
  ELSE Handle(Transition([w EXCEPT !.playlist =
                                     BuildPlaylist(w.sounds, replacements)],
                         "playing"),
              "next")

\* the position in the sound list of the entry taken last from w.playlist
CurrentIndex(w) == Len(w.sounds) - Len(w.playlist)

\* client.Playback(), playback.once('PlaybackFinished', ...) and
\* channel.play({media: this.sound.sound}, this.playback)
StartPlayback(w) ==
  [w EXCEPT !.playbacks = Append(@, [media |-> w.sound[1].sound,
                                     entry |-> CurrentIndex(w),
                                     listener |-> TRUE,
                                     call |-> "pending",
                                     finished |-> FALSE]),
            !.playback = Len(w.playbacks) + 1,
            !.currentPlaybackHandler = TRUE]

\* mutant: a skipable entry is skipped whether or not stopped is set
playing_next_skipUnstopped(w) ==
  IF w.playlist = <<>>
  THEN Handle([w EXCEPT !.sound = <<>>], "finished")
  ELSE LET w1 == [w EXCEPT !.sound = <<Head(w.playlist)>>,
                           !.playlist = Tail(w.playlist)]
       IN IF w1.sound[1].skipable
          THEN Handle(w1, "finished")
          ELSE StartPlayback(w1)

\* mutant: every entry is played, stopped or not
playing_next_neverSkip(w) ==
  IF w.playlist = <<>>
  THEN Handle([w EXCEPT !.sound = <<>>], "finished")
  ELSE StartPlayback([w EXCEPT !.sound = <<Head(w.playlist)>>,
                               !.playlist = Tail(w.playlist)])

\* mutant: an exhausted playlist is not reported as finished
playing_next_emptyWaits(w) ==
  IF w.playlist = <<>>
  THEN [w EXCEPT !.sound = <<>>]
  ELSE LET w1 == [w EXCEPT !.sound = <<Head(w.playlist)>>,
                           !.playlist = Tail(w.playlist)]
       IN IF w1.stopped /\ w1.sound[1].skipable
          THEN Handle(w1, "finished")
          ELSE StartPlayback(w1)

\* mutant: once stopped is set every entry is skipped, skipable or not
playing_next_skipAllStopped(w) ==
  IF w.playlist = <<>>
  THEN Handle([w EXCEPT !.sound = <<>>], "finished")
  ELSE LET w1 == [w EXCEPT !.sound = <<Head(w.playlist)>>,
                           !.playlist = Tail(w.playlist)]
       IN IF w1.stopped
          THEN Handle(w1, "finished")
          ELSE StartPlayback(w1)

playing_next(w) ==
  IF w.playlist = <<>>
  THEN Handle([w EXCEPT !.sound = <<>>], "finished")
  ELSE LET w1 == [w EXCEPT !.sound = <<Head(w.playlist)>>,
                           !.playlist = Tail(w.playlist)]
       IN IF w1.stopped /\ w1.sound[1].skipable
          THEN Handle(w1, "finished")
          ELSE StartPlayback(w1)

\* mutant: the two outcomes of the end of the playlist are exchanged
playing_finished_swapped(w) ==
  IF w.playlist = <<>>
  THEN Transition(Emit(w, IF w.stopped THEN "PromptFinished"
                          ELSE "PromptStopped"),
                  "done")
  ELSE [w EXCEPT !.timers =
          Append(@, IF w.stopped THEN 0 ELSE w.sound[1].postSilence * 1000)]

\* mutant: the post-silence delay is applied whether or not stopped is set
playing_finished_alwaysDelay(w) ==
  IF w.playlist = <<>>
  THEN Transition(Emit(w, IF w.stopped THEN "PromptStopped"
                          ELSE "PromptFinished"),
                  "done")
  ELSE [w EXCEPT !.timers = Append(@, w.sound[1].postSilence * 1000)]

playing_finished(w) ==
  IF w.playlist = <<>>
  THEN Transition(Emit(w, IF w.stopped THEN "PromptStopped"
                          ELSE "PromptFinished"),
                  "done")
  ELSE [w EXCEPT !.timers =
          Append(@, IF w.stopped THEN 0 ELSE w.sound[1].postSilence * 1000)]

\* the number of playbacks that have emitted PlaybackFinished
FinishedCount(w) ==
  Cardinality({p \in DOMAIN w.playbacks : w.playbacks[p].finished})

\* mutant: stop cancels the current playback whether or not it is skipable
playing_stop_anySound(w) ==
  LET w1 == [w EXCEPT !.stopped = TRUE,
                      !.stops = Append(@, [entry |-> IF w.sound = <<>> THEN 0
                                                     ELSE CurrentIndex(w),
                                           started |-> Len(w.playbacks),
                                           completed |-> FinishedCount(w),
                                           waiting |-> Len(w.timers)])]
  IN IF w1.sound # <<>>
     THEN IF w1.playback = 0
          THEN [w1 EXCEPT !.crashed = TRUE]
          ELSE [w1 EXCEPT !.cancels =
                  Append(@, [playback |-> w1.playback,
                             rejected |-> FALSE,
                             entry |-> CurrentIndex(w1),
                             finished |-> w1.playbacks[w1.playback].finished])]
     ELSE w1

\* mutant: stop moves on to the next entry at once instead of waiting for the
\* PlaybackFinished event of the current one
playing_stop_advance(w) ==
  LET w1 == [w EXCEPT !.stopped = TRUE,
                      !.stops = Append(@, [entry |-> IF w.sound = <<>> THEN 0
                                                     ELSE CurrentIndex(w),
                                           started |-> Len(w.playbacks),
                                           completed |-> FinishedCount(w),
                                           waiting |-> Len(w.timers)])]
  IN IF w1.sound # <<>> /\ w1.sound[1].skipable
     THEN IF w1.playback = 0
          THEN [w1 EXCEPT !.crashed = TRUE]
          ELSE Handle([w1 EXCEPT !.cancels =
                         Append(@, [playback |-> w1.playback,
                                    rejected |-> FALSE,
                                    entry |-> CurrentIndex(w1),
                                    finished |->
                                      w1.playbacks[w1.playback].finished])],
                      "next")
     ELSE w1

\* this.playback.stop(): with this.playback undefined the property read
\* throws a TypeError out of the handler
playing_stop(w) ==
  LET w1 == [w EXCEPT !.stopped = TRUE,
                      !.stops = Append(@, [entry |-> IF w.sound = <<>> THEN 0
                                                     ELSE CurrentIndex(w),
                                           started |-> Len(w.playbacks),
                                           completed |-> FinishedCount(w),
                                           waiting |-> Len(w.timers)])]
  IN IF w1.sound # <<>> /\ w1.sound[1].skipable
     THEN IF w1.playback = 0
          THEN [w1 EXCEPT !.crashed = TRUE]
          ELSE [w1 EXCEPT !.cancels =
                  Append(@, [playback |-> w1.playback,
                             rejected |-> FALSE,
                             entry |-> CurrentIndex(w1),
                             finished |-> w1.playbacks[w1.playback].finished])]
     ELSE w1

\* machina handle(inputType): the handler of the current state, the
\* catch-all of done, or nothing (nohandler) when the state has neither
Handle(w, cmd) ==
  IF w.crashed THEN w
  ELSE IF w.state = "init" /\ cmd = "play" THEN init_play(w)
  ELSE IF w.state = "init" /\ cmd = "stop" THEN init_stop(w)
  ELSE IF w.state = "processing" /\ cmd = "play" THEN processing_play(w)
  ELSE IF w.state = "playing" /\ cmd = "next" THEN playing_next(w)
  ELSE IF w.state = "playing" /\ cmd = "finished" THEN playing_finished(w)
  ELSE IF w.state = "playing" /\ cmd = "stop" THEN playing_stop(w)
  ELSE w

RECURSIVE Replay(_, _)
Replay(w, items) ==
  IF items = <<>> THEN w
  ELSE Replay(Handle(w, Head(items).cmd), Tail(items))

\* mutant: of the commands due only the oldest is replayed, the rest are lost
processQueue_onlyFirst(w) ==
  LET due(item) == item.untilState = w.state
      notDue(item) == item.untilState # w.state
      items == SelectSeq(w.eventQueue, due)
  IN Replay([w EXCEPT !.eventQueue = SelectSeq(@, notDue)],
            IF items = <<>> THEN <<>> ELSE <<Head(items)>>)

\* machina processQueue(NEXT_TRANSITION): the commands deferred until the
\* state just entered leave the queue and are handled in queue order
processQueue(w) ==
  LET due(item) == item.untilState = w.state
      notDue(item) == item.untilState # w.state
  IN Replay([w EXCEPT !.eventQueue = SelectSeq(@, notDue)],
            SelectSeq(w.eventQueue, due))

\* machina transition(newState): nothing when newState is the current state
Transition(w, newState) ==
  IF w.crashed \/ newState = w.state THEN w
  ELSE LET w1 == [w EXCEPT !.state = newState]
           w2 == IF newState = "done" THEN done_onEnter(w1) ELSE w1
       IN processQueue(w2)


\* ----------------------------------------------------------------- events
\* create(sounds, channel, replacements): the fsm is constructed and has run
\* init._onEnter, so getClient is pending and the hangup handler is installed
InitWith(lists, mappings) ==
  /\ sounds \in lists
  /\ replacements \in mappings
  /\ state = "init"
  /\ eventQueue = <<>>
  /\ client = FALSE
  /\ playlist = <<>>
  /\ sound = <<>>
  /\ stopped = FALSE
  /\ playback = 0
  /\ currentPlaybackHandler = FALSE
  /\ currentHangupHandler = TRUE
  /\ stasisEndListener = TRUE
  /\ playbacks = <<>>
  /\ timers = <<>>
  /\ ticks = <<>>
  /\ deferreds = <<>>
  /\ emitted = <<>>
  /\ getClient = "pending"
  /\ hungup = FALSE
  /\ stopCalls = 0
  /\ cancels = <<>>
  /\ stops = <<>>
  /\ crashed = FALSE

Init == InitWith(SoundLists, Mappings)

\* api.play(): a new deferred with its three listeners attached, and the
\* play command on the next tick
ApiPlay ==
  /\ ~crashed
  /\ Len(deferreds) < MaxPlayCalls
  /\ deferreds' = Append(deferreds, [listening |-> TRUE, promise |-> "pending",
                                     settled |-> 0])
  /\ ticks' = Append(ticks, "play")
  /\ UNCHANGED <<sounds, replacements, state, eventQueue, client, playlist,
                 sound, stopped, playback, currentPlaybackHandler,
                 currentHangupHandler, stasisEndListener, playbacks, timers,
                 emitted, getClient, hungup, stopCalls, cancels, stops,
                 crashed>>

\* api.stop(): the stop command on the next tick
ApiStop ==
  /\ ~crashed
  /\ stopCalls < MaxStopCalls
  /\ stopCalls' = stopCalls + 1
  /\ ticks' = Append(ticks, "stop")
  /\ UNCHANGED <<sounds, replacements, state, eventQueue, client, playlist,
                 sound, stopped, playback, currentPlaybackHandler,
                 currentHangupHandler, stasisEndListener, playbacks, timers,
                 deferreds, emitted, getClient, hungup, cancels, stops,
                 crashed>>

\* the oldest nextTick callback runs: state.handle('play' or 'stop')
NextTick ==
  /\ ~crashed
  /\ ticks # <<>>
  /\ ticks' = Tail(ticks)
  /\ Commit(Handle(World, Head(ticks)))
  /\ UNCHANGED <<replacements, getClient, hungup, stopCalls>>

\* getClient resolves and the callback of then runs: self.client = client;
\* self.transition('processing'). An exception thrown under the transition
\* (by a replayed play command) ends the callback where it was thrown and
\* rejects the promise then returned; the callback of the catch that follows
\* is called later by the promise library, in a call of its own
GetClientResolved ==
  /\ ~crashed
  /\ getClient = "pending"
  /\ LET w == Transition([World EXCEPT !.client = TRUE], "processing")
     IN /\ getClient' = IF w.crashed THEN "thrown" ELSE "resolved"
        /\ Commit([w EXCEPT !.crashed = FALSE])
  /\ UNCHANGED <<replacements, ticks, hungup, stopCalls>>

\* the callback of catch runs: self.emit('Error', err); self.transition('done').
\* It is called with the reason ari.getClient was rejected with, or with the
\* exception the callback of then has thrown
GetClientRejected ==
  /\ ~crashed
  /\ getClient \in {"pending", "thrown"}
  /\ getClient' = IF getClient = "pending" THEN "rejected" ELSE "caught"
  /\ LET err == IF getClient = "pending" THEN "getClient failed"
                ELSE "TypeError"
     IN Commit(Transition(Emit(World, err), "done"))
  /\ UNCHANGED <<replacements, ticks, hungup, stopCalls>>

\* the channel emits StasisEnd; the listener was added with once
StasisEnd ==
  /\ ~crashed
  /\ ~hungup
  /\ hungup' = TRUE
  /\ IF stasisEndListener
     THEN Commit(hangupHandler([World EXCEPT !.stasisEndListener = FALSE]))
     ELSE Commit(World)
  /\ UNCHANGED <<replacements, ticks, getClient, stopCalls>>

\* the channel.play call of playback p succeeds
PlayResolved(p) ==
  /\ ~crashed
  /\ playbacks[p].call = "pending"
  /\ playbacks' = [playbacks EXCEPT ![p].call = "ok"]
  /\ UNCHANGED <<sounds, replacements, state, eventQueue, client, playlist,
                 sound, stopped, playback, currentPlaybackHandler,
                 currentHangupHandler, stasisEndListener, timers, ticks,
                 deferreds, emitted, getClient, hungup, stopCalls, cancels,
                 stops, crashed>>

\* the channel.play call of playback p fails: emit Error, transition done
PlayRejected(p) ==
  /\ ~crashed
  /\ playbacks[p].call = "pending"
  /\ Commit(Transition(Emit([World EXCEPT !.playbacks[p].call = "failed"],
                            "channel.play failed"),
                       "done"))
  /\ UNCHANGED <<replacements, ticks, getClient, hungup, stopCalls>>

\* playback p emits PlaybackFinished, whether or not the channel.play call
\* has called back yet; the listener was added with once
PlaybackFinished(p) ==
  /\ ~crashed
  /\ ~playbacks[p].finished
  /\ LET w == [World EXCEPT !.playbacks[p].finished = TRUE,
                            !.playbacks[p].listener = FALSE]
     IN IF playbacks[p].listener
        THEN Commit(playbackFinishedHandler(w))
        ELSE Commit(w)
  /\ UNCHANGED <<replacements, ticks, getClient, hungup, stopCalls>>

\* mutant: the failure of playback.stop() is reported as an Error outcome
StopRejected_emitsError(k) ==
  /\ ~crashed
  /\ ~cancels[k].rejected
  /\ Commit(Transition(Emit([World EXCEPT !.cancels[k].rejected = TRUE],
                            "playback.stop failed"),
                       "done"))
  /\ UNCHANGED <<replacements, ticks, getClient, hungup, stopCalls>>

\* the playback.stop() call of cancellation request k fails: the catch of
\* playing.stop ignores the error
StopRejected(k) ==
  /\ ~crashed
  /\ ~cancels[k].rejected
  /\ cancels' = [cancels EXCEPT ![k].rejected = TRUE]
  /\ UNCHANGED <<sounds, replacements, state, eventQueue, client, playlist,
                 sound, stopped, playback, currentPlaybackHandler,
                 currentHangupHandler, stasisEndListener, playbacks, timers,
                 ticks, deferreds, emitted, getClient, hungup, stopCalls,
                 stops, crashed>>

\* timer k of playing.finished expires: self.handle('next')
Timeout(k) ==
  /\ ~crashed
  /\ LET w == [World EXCEPT !.timers =
                 SubSeq(timers, 1, k - 1) \o SubSeq(timers, k + 1, Len(timers))]
     IN Commit(Handle(w, "next"))
  /\ UNCHANGED <<replacements, ticks, getClient, hungup, stopCalls>>

Next ==
  \/ ApiPlay
  \/ ApiStop
  \/ NextTick
  \/ GetClientResolved
  \/ GetClientRejected
  \/ StasisEnd
  \/ \E p \in DOMAIN playbacks : PlayResolved(p)
  \/ \E p \in DOMAIN playbacks : PlayRejected(p)
  \/ \E p \in DOMAIN playbacks : PlaybackFinished(p)
  \/ \E k \in DOMAIN timers : Timeout(k)
  \/ \E k \in DOMAIN cancels : StopRejected(k)

Spec == Init /\ [][Next]_vars


\* ------------------------------------------- the playlist-builder runs
\* one sound whose identifier is any string over these characters, and a
\* mapping that holds the name n with one of these values, or lacks it, or
\* no mapping at all
Alphabet == {"a", "n", "{", "}", "\n"}
Identifiers == UNION {[1..n -> Alphabet] : n \in 0..MaxStrLen}
Values ==
  {<<"1">>, <<>>, <<"$", "$">>, <<"$", "&">>, <<"$", GraveAccent>>, <<"$", "'">>,
   <<"$", "1">>}
BuildLists ==
  {<<[sound |-> id, skipable |-> FALSE, postSilence |-> 0]>> :
     id \in Identifiers}
BuildMappings ==
  {[k \in {<<"n">>} |-> v] : v \in Values}
    \cup {[k \in {<<"m">>} |-> <<"2">>], NoReplacements}

InitBuild == InitWith(BuildLists, BuildMappings)

NextBuild ==
  \/ ApiPlay
  \/ NextTick
  \/ GetClientResolved
  \/ GetClientRejected
  \/ \E p \in DOMAIN playbacks : PlayResolved(p)
  \/ \E p \in DOMAIN playbacks : PlaybackFinished(p)

SpecBuild == InitBuild /\ [][NextBuild]_vars

\* --------------------------------------------------- shared predicates
Range(f) == {f[i] : i \in DOMAIN f}

\* no client-acquisition failure and no failed channel.play call so far
NoFailure ==
  /\ getClient # "rejected"
  /\ \A p \in DOMAIN playbacks : playbacks[p].call # "failed"

\* nothing the program or its collaborators still owe: no pending tick, no
\* pending getClient or catch callback, no playback still playing, no timer (or the process
\* has died); a channel.play call that never calls back is owed nothing
Quiescent ==
  \/ crashed
  \/ /\ ticks = <<>>
     /\ getClient \notin {"pending", "thrown"}
     /\ timers = <<>>
     /\ \A p \in DOMAIN playbacks :
          \/ playbacks[p].call = "failed"
          \/ playbacks[p].finished

\* the entries, in input order, whose playback was started
StartedEntries == [p \in DOMAIN playbacks |-> playbacks[p].entry]

\* playback p ran to its PlaybackFinished event and no cancellation request
\* reached it while it was playing
PlayedThrough(p) ==
  /\ playbacks[p].finished
  /\ \A k \in DOMAIN cancels :
       cancels[k].playback = p => cancels[k].finished

\* every sound of the list was played through to its PlaybackFinished event
AllCompleted ==
  \A i \in DOMAIN sounds :
    \E p \in DOMAIN playbacks : playbacks[p].entry = i /\ PlayedThrough(p)

Settled(d) == d.promise # "pending"


\* ------------------------------------------------------------- claims
\* C1: for a non-empty sound list, while stop() has not been called, the
\* channel has not disconnected and neither client acquisition nor a
\* channel.play call has failed, the playbacks started are those of entries
\* 1, 2, ... in input order, each once; a play() promise settles only with
\* true, and only after every entry was started; and once nothing is pending
\* any more the promise of the first play() has resolved true.
C1_Pre == sounds # <<>> /\ stopCalls = 0 /\ ~hungup /\ NoFailure

C1_PlaysAllInOrder ==
  C1_Pre =>
    /\ StartedEntries = [p \in 1..Len(playbacks) |-> p]
    /\ \A i \in DOMAIN deferreds :
         /\ deferreds[i].promise \in {"pending", "true"}
         /\ deferreds[i].promise = "true" => Len(playbacks) = Len(sounds)
    /\ (Quiescent /\ deferreds # <<>>) => deferreds[1].promise = "true"

C1_Witness ==
  /\ C1_Pre
  /\ Len(sounds) >= 2
  /\ deferreds # <<>>
  /\ deferreds[1].promise = "true"
  /\ StartedEntries = [p \in 1..Len(sounds) |-> p]

\* C2 (as claimed): once a stop command has run in the playing state
\* (directly or replayed from the queue of init), and while no disconnect and
\* no failure of getClient or of a channel.play call has occurred, no play()
\* promise settles with anything but false, and once nothing is pending any
\* more the promise of the first play() has resolved false.
C2_Pre == stopped /\ ~hungup /\ NoFailure

C2_StopResolvesFalse ==
  C2_Pre =>
    /\ \A i \in DOMAIN deferreds : deferreds[i].promise \in {"pending", "false"}
    /\ Quiescent => (deferreds # <<>> /\ deferreds[1].promise = "false")

\* C3 (as claimed): when the hangup handler has run, that is the channel
\* emitted StasisEnd between create() and the session's termination, every
\* promise returned by play() ends rejected with 'Channel hungup.'.
C3_HangupAlwaysRejects ==
  ("Channel hungup." \in Range(emitted) /\ Quiescent) =>
    \A i \in DOMAIN deferreds : deferreds[i].promise = "Channel hungup."

\* C4: the promise of one play() is settled at most once: at most one of its
\* three listeners has run, the listeners are attached exactly as long as none
\* has run, and the promise is settled exactly when one has.
C4_SettledAtMostOnce ==
  \A i \in DOMAIN deferreds :
    /\ deferreds[i].settled <= 1
    /\ deferreds[i].listening <=> deferreds[i].settled = 0
    /\ Settled(deferreds[i]) <=> deferreds[i].settled = 1

\* a second outcome signal was emitted after the first one settled the promise
C4_Witness ==
  /\ deferreds # <<>>
  /\ deferreds[1].promise = "Channel hungup."
  /\ Len(emitted) >= 2
  /\ emitted[1] = "Channel hungup."

\* C5 (as claimed): once client acquisition has completed and every tick,
\* play call, playback and timer has run its course, every play() promise is
\* settled.
C5_EveryPlaySettles ==
  Quiescent => \A i \in DOMAIN deferreds : Settled(deferreds[i])

\* C6 (as claimed): when every sound of a non-empty list was played through
\* to its PlaybackFinished event, a play() promise that resolves, resolves
\* true.
C6_TrueIfAllCompleted ==
  (sounds # <<>> /\ AllCompleted) =>
    \A i \in DOMAIN deferreds : deferreds[i].promise # "false"

\* C6 (amended): when every sound of a non-empty list was played through to
\* its PlaybackFinished event and stopped is not set, no play() promise
\* resolves false, and unless the channel disconnected or a call failed the
\* promise of the first play() has resolved true.
C6_TrueIfAllCompletedUnstopped ==
  (sounds # <<>> /\ AllCompleted /\ ~stopped) =>
    /\ \A i \in DOMAIN deferreds : deferreds[i].promise # "false"
    /\ (~hungup /\ NoFailure) =>
         (deferreds # <<>> /\ deferreds[1].promise = "true")

C6_Witness ==
  /\ Len(sounds) >= 2
  /\ AllCompleted
  /\ ~stopped
  /\ stopCalls >= 1
  /\ deferreds # <<>>
  /\ deferreds[1].promise = "true"

\* C7 (as claimed): the media string given to channel.play is the sound
\* identifier with its one {name} token replaced by replacements[name] when
\* the mapping holds name, and the identifier itself when it has no braces.
Positions(s, c) == {i \in 1..Len(s) : s[i] = c}

OnePlaceholder(s) ==
  /\ Cardinality(Positions(s, "{")) = 1
  /\ Cardinality(Positions(s, "}")) = 1
  /\ \E i \in Positions(s, "{") : \E j \in Positions(s, "}") :
       /\ i + 1 < j
       /\ \A m \in (i + 1)..(j - 1) : ~IsLineTerminator(s[m])

PlaceholderName(s) ==
  SubSeq(s, Max(Positions(s, "{")) + 1, Max(Positions(s, "}")) - 1)

TextualReplacement(s, value) ==
  SubSeq(s, 1, Max(Positions(s, "{")) - 1) \o value
    \o SubSeq(s, Max(Positions(s, "}")) + 1, Len(s))

C7_TextualReplacement ==
  \A p \in DOMAIN playbacks :
    LET s == sounds[playbacks[p].entry].sound
    IN /\ (OnePlaceholder(s) /\ PlaceholderName(s) \in DOMAIN replacements) =>
            playbacks[p].media =
              TextualReplacement(s, replacements[PlaceholderName(s)])
       /\ (Positions(s, "{") = {} /\ Positions(s, "}") = {}) =>
            playbacks[p].media = s

\* C8: no step changes the caller's sound list, its descriptors or the
\* replacement mapping.
C8_InputsUnchanged ==
  [][sounds' = sounds /\ replacements' = replacements]_vars

\* a run that built a playlist whose media differ from the identifiers and
\* consumed it to the end
C8_Witness ==
  /\ state = "done"
  /\ playlist = <<>>
  /\ \E p \in DOMAIN playbacks :
       /\ playbacks[p].finished
       /\ playbacks[p].media # sounds[playbacks[p].entry].sound

\* C9: when the first run of the stop handler came before any playback had
\* finished and no later than the first entry, and some entry after the first
\* is skipable, fewer playbacks are started than the list has entries.
StoppedDuringFirst ==
  stops # <<>> /\ stops[1].completed = 0 /\ stops[1].entry <= 1

C9_FewerPlayedThanListed ==
  (StoppedDuringFirst /\ \E i \in 2..Len(sounds) : sounds[i].skipable) =>
    Len(playbacks) < Len(sounds)

C9_Witness ==
  /\ StoppedDuringFirst
  /\ stops[1].started = 1
  /\ \E i \in 2..Len(sounds) : sounds[i].skipable
  /\ state = "done"
  /\ deferreds[1].promise = "false"

\* C10: a cancellation request is never sent to a playback of a non-skipable
\* entry that is still playing, and unless the channel disconnected or a call
\* failed the session is not in done while a playback of a non-skipable entry
\* has not emitted PlaybackFinished.
C10_NonSkipableNotTruncated ==
  /\ \A k \in DOMAIN cancels :
       ~cancels[k].finished =>
         sounds[playbacks[cancels[k].playback].entry].skipable
  /\ (state = "done" /\ ~hungup /\ NoFailure) =>
       \A p \in DOMAIN playbacks :
         ~sounds[playbacks[p].entry].skipable => playbacks[p].finished

\* stop ran while a non-skipable entry was playing, and the session ended
C10_Witness ==
  /\ stops # <<>>
  /\ stops[1].entry >= 1
  /\ ~sounds[stops[1].entry].skipable
  /\ stops[1].started > stops[1].completed
  /\ state = "done"
  /\ ~hungup
  /\ NoFailure
  /\ \A p \in DOMAIN playbacks : playbacks[p].finished

\* C11: stop() is idempotent: a stop command handled when stopped is already
\* set changes nothing an observer can see; it sends no cancellation request
\* to a playback handle and throws no exception.
C11_StopIdempotent ==
  [][(stopped /\ Len(stops') > Len(stops))
       => (cancels' = cancels /\ ~crashed')]_vars

\* the hangup handler has run
HangupSeen == "Channel hungup." \in Range(emitted)

\* C12 as stated: for an empty sound list, when client acquisition does not
\* fail and the hangup handler does not run, no playback is ever started, the
\* step that processes the play command ends in done, and there the one
\* outcome is PromptFinished and the first play() has resolved true.
C12_EmptyListFinishes ==
  (sounds = <<>> /\ getClient # "rejected" /\ ~HangupSeen)
    => /\ playbacks = <<>>
       /\ state # "playing"
       /\ state = "done" => /\ emitted = <<"PromptFinished">>
                            /\ deferreds[1].promise = "true"

\* C12 amended: the same when no stop command was queued during init; when
\* one was, it is replayed on entering playing, the one outcome is
\* PromptStopped and the first play() has resolved false. No playback is
\* started either way.
C12_EmptyListFinishesUnstopped ==
  (sounds = <<>> /\ getClient # "rejected" /\ ~HangupSeen)
    => /\ playbacks = <<>>
       /\ state # "playing"
       /\ state = "done" =>
            /\ emitted = <<IF stopped THEN "PromptStopped"
                           ELSE "PromptFinished">>
            /\ deferreds[1].promise = IF stopped THEN "false" ELSE "true"
            /\ stopped => stops[1].started = 0 /\ stops[1].entry = 0

C12_Witness ==
  /\ sounds = <<>>
  /\ getClient = "resolved"
  /\ ~hungup
  /\ state = "done"
  /\ ~stopped
  /\ stopCalls > 0
  /\ emitted = <<"PromptFinished">>
  /\ deferreds[1].promise = "true"

\* C13: when client acquisition fails (and the hangup handler has not run),
\* no playback is ever started, the session is done, and once nothing is
\* pending any more every play() has been rejected with the error getClient
\* failed with.
C13_ClientFailureRejects ==
  (getClient = "rejected" /\ ~HangupSeen)
    => /\ playbacks = <<>>
       /\ state = "done"
       /\ Quiescent => \A i \in DOMAIN deferreds :
                         deferreds[i].promise = "getClient failed"

\* C14: when a channel.play call has failed the session is done, and
\* unless the hangup handler ran the first outcome is that error and the
\* first play() is rejected with it.
C14_PlayFailureRejects ==
  \A p \in DOMAIN playbacks :
    playbacks[p].call = "failed"
      => /\ state = "done"
         /\ ~HangupSeen => /\ Head(emitted) = "channel.play failed"
                           /\ deferreds[1].promise = "channel.play failed"

\* the sound of entry i holds a placeholder whose name the mapping lacks
Unresolved(i) ==
  /\ OnePlaceholder(sounds[i].sound)
  /\ PlaceholderName(sounds[i].sound) \notin DOMAIN replacements

\* C15: when an identifier holds a placeholder whose name is missing from the
\* replacement mapping, the playlist build raises an error and no playback is
\* started.
C15_MissingKeyIsError ==
  (\E i \in DOMAIN sounds : Unresolved(i))
    => /\ playbacks = <<>>
       /\ state \in {"playing", "done"} => /\ emitted # <<>>
                                           /\ Head(emitted) # "PromptFinished"

\* C16: over the life of one fsm at most one outcome signal (PromptFinished,
\* PromptStopped or Error) is emitted.
C16_AtMostOneOutcome == Len(emitted) <= 1

\* C17: done is terminal: once the fsm is in done it stays in done, and no
\* playback is started from then on.
C17_DoneIsTerminal ==
  [][state = "done"
       => (state' = "done" /\ Len(playbacks') = Len(playbacks))]_vars

\* the playbacks in flight: started, the channel.play call has not failed,
\* and PlaybackFinished has not been emitted
InFlight ==
  {p \in DOMAIN playbacks :
     playbacks[p].call # "failed" /\ ~playbacks[p].finished}

\* C18: at most one playback is in flight at any time; it is the one started
\* last, and no timer is pending while it is in flight.
C18_OneInFlight ==
  /\ Cardinality(InFlight) <= 1
  /\ \A p \in InFlight : p = Len(playbacks) /\ timers = <<>>

C18_Witness ==
  /\ Len(playbacks) = 2
  /\ playbacks[1].finished
  /\ InFlight = {2}
  /\ stopped
  /\ cancels # <<>>

SinceFirstStopUnchanged ==
  /\ Len(playbacks) = stops[1].started
  /\ FinishedCount(World) = stops[1].completed
  /\ sound # <<>> /\ CurrentIndex(World) = stops[1].entry

\* the playbacks started for entry i of the sound list
PlaybacksOf(i) == {p \in DOMAIN playbacks : playbacks[p].entry = i}

\* the entries taken from the playlist after the first stop was handled
\* (stop is handled in playing only, so the playlist has been built)
DequeuedAfterStop == (stops[1].entry + 1)..CurrentIndex(World)

C20_SkipOnlySkipable ==
  stops # <<>> =>
    \A i \in DequeuedAfterStop :
      IF sounds[i].skipable
      THEN /\ PlaybacksOf(i) = {}
           /\ \/ state = "done"
              \/ i < CurrentIndex(World)
              \/ timers = <<0>>
      ELSE /\ Cardinality(PlaybacksOf(i)) = 1
           /\ \A p \in PlaybacksOf(i) :
                playbacks[p].media = Resolve(sounds[i].sound, replacements)

C20_Witness ==
  /\ Len(sounds) = 2
  /\ ~sounds[1].skipable
  /\ sounds[2].skipable
  /\ stops # <<>> /\ stops[1].entry = 0
  /\ DequeuedAfterStop = {1, 2}
  /\ Len(playbacks) = 1 /\ playbacks[1].entry = 1 /\ playbacks[1].finished
  /\ state = "done"

\* C21: a stop command handled during the post-silence delay of the entry
\* that just finished cancels the delay: once stopped is set no timer with a
\* post-silence delay is pending.
C21_StopCancelsDelay ==
  stopped => \A k \in DOMAIN timers : timers[k] = 0

\* stopped was set when the pending timer was set: a stop has been handled,
\* and not during this very delay
StoppedWhenTimerSet ==
  /\ stops # <<>>
  /\ ~(stops[1].waiting = 1 /\ SinceFirstStopUnchanged)

\* C22: while the fsm is playing, the entry current has either a playback in
\* flight or one timer pending, never both and never neither: after an entry
\* finished (or was skipped) with entries remaining, the next entry is held
\* back by a timer, of that entry's postSilence seconds when stopped was not
\* set at that moment and of zero when it was; with no entry remaining no
\* timer is set (the outcome is raised in the same step).
C22_DelayBetweenEntries ==
  /\ timers # <<>> =>
       /\ Len(timers) = 1
       /\ sound # <<>>
       /\ playlist # <<>>
       /\ InFlight = {}
       /\ timers[1] = IF StoppedWhenTimerSet THEN 0
                      ELSE sound[1].postSilence * 1000
  /\ (state = "playing" /\ sound # <<>> /\ timers = <<>>)
       => InFlight = {Len(playbacks)}
  /\ (state = "playing" /\ sound = <<>>) => FALSE

C22_Witness ==
  /\ timers = <<0>>
  /\ stopped
  /\ sound # <<>> /\ sound[1].postSilence = 1
  /\ CurrentIndex(World) = 1
  /\ Len(playbacks) = 1
  /\ playbacks[1].finished
  /\ playlist # <<>>
  /\ state = "playing"

\* the number of commands cmd in a sequence of queued items
Queued(q, cmd) == Cardinality({i \in DOMAIN q : q[i].cmd = cmd})

\* the number of commands cmd in a sequence of commands
Ticking(t, cmd) == Cardinality({i \in DOMAIN t : t[i] = cmd})

\* C23: the commands issued in init are never dropped and replay once, at
\* their state. After every step: in init each play() and stop() so far is
\* either still on its tick or queued, play until processing and stop until
\* playing; no play stays queued in processing and nothing stays queued in
\* playing. A step that takes the queued stops off the queue takes all of
\* them, runs the stop handler once for each, and does so before the first
\* entry is dequeued; a step that takes the queued plays off the queue
\* takes all of them and leaves the fsm past processing.
C23_DeferredReplayOnce ==
  [][/\ state' = "init" =>
          /\ Queued(eventQueue', "play") + Ticking(ticks', "play")
               = Len(deferreds')
          /\ Queued(eventQueue', "stop") + Ticking(ticks', "stop")
               = stopCalls'
          /\ \A i \in DOMAIN eventQueue' :
               eventQueue'[i].untilState =
                 IF eventQueue'[i].cmd = "play" THEN "processing"
                 ELSE "playing"
     /\ state' = "processing" => Queued(eventQueue', "play") = 0
     /\ state' = "playing" => eventQueue' = <<>>
     /\ Queued(eventQueue', "stop") <= Queued(eventQueue, "stop")
          \/ state = "init"
     /\ Queued(eventQueue', "play") <= Queued(eventQueue, "play")
          \/ state = "init"
     /\ Queued(eventQueue', "stop") < Queued(eventQueue, "stop") =>
          /\ Queued(eventQueue', "stop") = 0
          /\ Len(stops') = Len(stops) + Queued(eventQueue, "stop")
          /\ stopped'
          /\ \A k \in (Len(stops) + 1)..Len(stops') :
               /\ stops'[k].entry = 0
               /\ stops'[k].started = 0
               /\ stops'[k].completed = 0
     /\ Queued(eventQueue', "play") < Queued(eventQueue, "play") =>
          /\ Queued(eventQueue', "play") = 0
          /\ state \in {"init", "done"}
          /\ state' \in {"playing", "done"}
          /\ eventQueue' = <<>>
    ]_vars

C23_Witness ==
  /\ Len(stops) = 2
  /\ stops[2].entry = 0
  /\ eventQueue = <<>>
  /\ Len(deferreds) = 2
  /\ ~HangupSeen
  /\ Len(playbacks) = 1
  /\ ~sounds[1].skipable
  /\ state = "playing"

\* the session has a listener on the channel or on a playback handle
Subscribed ==
  \/ stasisEndListener
  \/ \E p \in DOMAIN playbacks : playbacks[p].listener

\* C24: from the first entry into done onwards (every entry into done
\* follows the emission of an outcome) the session has no listener on the
\* channel or on any playback handle.
C24_NoListenerAfterDone ==
  emitted # <<>> => ~Subscribed

\* some playback.stop() call issued by the stop handler has failed
CancelFailed == \E k \in DOMAIN cancels : cancels[k].rejected

\* C25: a failure of the playback.stop() call is swallowed: no Error is
\* emitted for it, it takes the fsm nowhere (absent disconnect and failure
\* done is reached only when the playlist has run out and every playback
\* started has emitted PlaybackFinished), and the outcome is then the stopped
\* one: the first play() resolves false.
C25_CancelFailureSwallowed ==
  CancelFailed =>
    /\ "playback.stop failed" \notin Range(emitted)
    /\ (state = "done" /\ ~HangupSeen /\ NoFailure) =>
         /\ playlist = <<>>
         /\ \A p \in DOMAIN playbacks : playbacks[p].finished
         /\ emitted = <<"PromptStopped">>
         /\ deferreds[1].promise = "false"

C25_Witness ==
  /\ CancelFailed
  /\ ~cancels[1].finished
  /\ state = "done"
  /\ ~hungup
  /\ NoFailure
  /\ Len(playbacks) = 2
  /\ emitted = <<"PromptStopped">>
  /\ deferreds[1].promise = "false"

\* C26: stopped is unset at creation and is set exactly when the stop handler
\* of the playing state has run; it is unset in init and processing, and once
\* set it is never cleared, in done either.
C26_StoppedMonotonic ==
  /\ stopped <=> stops # <<>>
  /\ state \in {"init", "processing"} => ~stopped

C26_Witness ==
  /\ stopped
  /\ Len(stops) = 2
  /\ state = "done"
  /\ stopCalls = 2

\* C27: a stop command delivered to the fsm in init, processing or playing is
\* not lost: the step that delivers it either sets stopped or queues it for
\* replay.
C27_StopNeverLost ==
  [][(ticks # <<>> /\ Head(ticks) = "stop" /\ ticks' = Tail(ticks)
        /\ state \in {"init", "processing", "playing"})
       => \/ stopped'
          \/ Queued(eventQueue', "stop") = Queued(eventQueue, "stop") + 1
    ]_vars

\* C28: the stop handler never dereferences a missing playback handle, and
\* every cancellation request it sends goes to the playback of the entry
\* current at that moment, while that playback is in flight.
C28_CancelsCurrentInFlight ==
  /\ ~crashed
  /\ \A k \in DOMAIN cancels :
       /\ ~cancels[k].finished
       /\ playbacks[cancels[k].playback].entry = cancels[k].entry

====
